---------------------------- MODULE Spec2Model ----------------------------
(***************************************************************************)
(* A model of the capture-to-activation pipeline of webcam-capture-mvp:    *)
(*   - WebcamCapture (src/src/capture/webcam_capture.py): the supervisor   *)
(*     of the ffmpeg subprocess, its health monitor and its ingest loop;   *)
(*   - AudioProcessor (src/src/audio/processor.py): voice window and the   *)
(*     cooldown-gated activation-phrase recognizer;                        *)
(*   - the VAD backends (src/src/audio/vad.py).                            *)
(* Coroutines run on one asyncio event loop: an action is the code a       *)
(* coroutine runs between two suspension points.                           *)
(***************************************************************************)
EXTENDS Integers, Sequences, FiniteSets, TLC

(***************************************************************************)
(* Bounds of the model.                                                    *)
(***************************************************************************)
\* process slots (a slot is reused once its process has exited and no
\* coroutine holds a reference to it)
MaxProcs == 2
\* concurrently existing _monitor_capture tasks
MaxMonitors == 2
\* the restart counter of the model saturates here
RestartCountCap == 4

\* SystemSettings.max_restart_attempts
max_restart_attempts == 3

Pids == 1..MaxProcs
\* self.process is None
NoProc == 0

VARIABLES
    \* ---- WebcamCapture ----
    is_recording,      \* self.is_recording
    process,           \* self.process: NoProc or a pid
    procs,             \* pid -> "free" | "alive" | "signalled" | "exited":
                       \* the OS processes; signalled = terminate() was sent
                       \* and the process has not exited yet
    last_heartbeat,    \* self.last_heartbeat: "none" | "fresh" | "stale" (age > 60 s)
    monitor,           \* the _monitor_capture tasks, by position: how many are in
                       \* sleep(30), in sleep(2), and awaiting the exit of each pid
    ingest,            \* the _process_audio_stream task created with each pid:
                       \* [pc, pid], pid the process whose stdout it is reading
    stopCall,          \* a stop() in flight: [pc, pid]
    pauseCall,         \* a pause_video() in flight: [pc, pid]
    restarts,          \* history: calls of _restart_capture so far (saturating)
    dispatch_log,      \* history: when the last two handler calls were made
    call,              \* history: the last start() or stop() that returned at
                       \* once, and a bit flipped by each such call
    app,               \* how far WebcamCaptureApp.start has come
    settings,          \* settings.audio: sample_rate, channels, chunk_duration_sec
    framing,           \* the segmenter in bytes: len(buffer), the length of
                       \* the last frame sliced off, the frames so far
    webrtc,            \* a WebRTCVAD.detect_voice_activity call: its place,
                       \* len(audio_bytes), the offset i, voice_frames and
                       \* total_frames, what the backend answered, its result
    vadstats,          \* the VAD backend's stats (detections_total,
                       \* voice_detected, silence_detected), the calls inside
                       \* the executor, and the call that returned last
    storage,           \* StorageManager's directories: the file names in
                       \* hot, warm and cold, the metadata file of each
                       \* file_id, the file_ids stored so far and those
                       \* last marked high or critical
    seg,               \* one _process_audio_stream task in detail: its place,
                       \* its buffer, the bytes it has read, the frames it has
                       \* handed over, the errors of its last two iterations
    pipe,              \* the bytes all ingest tasks have read, numbered in the
                       \* order of their arrival: how many, the buffer of each
                       \* task, the frames submitted to process_chunk and
                       \* the time.time() passed with each
    \* ---- AudioProcessor ----
    is_running,        \* self.is_running
    vad_loaded,        \* self.vad.vad.model is not None
    whisper_loaded,    \* self._whisper_model is not None
    voice_segments,    \* self.voice_segments: the timestamps of the segments
    last_activation_time, \* self.last_activation_time
    activation_phrases,   \* self.activation_phrases: a dict, kept in insertion
                       \* order, as a sequence of [phrase, handler]
    now,               \* time.time(), in seconds
    chunk,             \* what the last process_chunk call did
    att                \* what the recognition attempt of the last call did

supVars == <<is_recording, process, procs, last_heartbeat, monitor, ingest,
             stopCall, pauseCall>>

procVars == <<is_running, vad_loaded, whisper_loaded, voice_segments,
              last_activation_time, activation_phrases, now, chunk, att>>

audioVars == <<settings, framing, webrtc, vadstats, storage>>

histVars == <<restarts, dispatch_log, call, app, audioVars>>

segVars == <<seg, pipe>>

vars == <<supVars, histVars, segVars, procVars>>

(***************************************************************************)
(* WebcamCapture                                                           *)
(***************************************************************************)
Idle == [pc |-> "idle", pid |-> NoProc]

\* WebcamCapture.__init__
SupInit ==
    /\ is_recording = FALSE
    /\ process = NoProc
    /\ procs = [p \in Pids |-> "free"]
    /\ last_heartbeat = "none"
    /\ monitor = [sleep |-> 0, delay |-> 0, wait |-> [p \in Pids |-> 0]]
    /\ ingest = [p \in Pids |-> Idle]
    /\ stopCall = Idle
    /\ pauseCall = Idle

Running(p) == procs[p] \in {"alive", "signalled"}
AlivePids == {p \in Pids : Running(p)}

\* Popen.terminate(): a signal to a process that has exited is a no-op
Terminate(ps, p) ==
    IF ps[p] = "alive" THEN [ps EXCEPT ![p] = "signalled"] ELSE ps

\* a pid some coroutine or the supervisor still refers to
Referenced(p) ==
    \/ process = p
    \/ monitor.wait[p] > 0
    \/ ingest[p].pc # "idle"
    \/ \E q \in Pids : ingest[q].pc = "reading" /\ ingest[q].pid = p
    \/ stopCall.pc # "idle" /\ stopCall.pid = p
    \/ pauseCall.pc # "idle" /\ pauseCall.pid = p

FreePids == {p \in Pids : ~Running(p) /\ ~Referenced(p)}

RECURSIVE SumOver(_, _)
SumOver(f, S) ==
    IF S = {} THEN 0
    ELSE LET x == CHOOSE y \in S : TRUE IN f[x] + SumOver(f, S \ {x})

NumMonitors == monitor.sleep + monitor.delay + SumOver(monitor.wait, Pids)

Min(S) == CHOOSE x \in S : \A y \in S : x <= y

\* stdout.read() is a blocking call made on the event loop's thread: while an
\* ingest task sits in it, no other coroutine runs.
LoopBlocked == \E p \in Pids : ingest[p].pc = "reading"

\* _start_capture_process, Popen succeeding: the new handle overwrites
\* self.process and a new _process_audio_stream task is created.
Launch ==
    /\ FreePids # {}
    /\ LET p == Min(FreePids)
       IN /\ procs' = [procs EXCEPT ![p] = "alive"]
          /\ process' = p
          /\ ingest' = [ingest EXCEPT ![p] = [pc |-> "ready", pid |-> NoProc]]

\* WebcamCapture.start, Popen succeeding: the subprocess is launched, the
\* monitor task created and the flag set
StartCapture ==
    /\ ~LoopBlocked
    /\ ~is_recording
    /\ NumMonitors < MaxMonitors
    /\ Launch
    /\ monitor' = [monitor EXCEPT !.sleep = @ + 1]
    /\ is_recording' = TRUE
    /\ UNCHANGED <<last_heartbeat, stopCall, pauseCall>>

\* WebcamCapture.start, Popen succeeding
Start ==
    /\ StartCapture
    /\ UNCHANGED <<histVars, segVars, procVars>>

\* mutant: start() without its test of is_recording
StartOnRunning_Launches ==
    /\ ~LoopBlocked
    /\ is_recording
    /\ NumMonitors < MaxMonitors
    /\ Launch
    /\ monitor' = [monitor EXCEPT !.sleep = @ + 1]
    /\ UNCHANGED <<is_recording, last_heartbeat, stopCall, pauseCall>>
    /\ UNCHANGED <<segVars, procVars>>

\* WebcamCapture.start on a running session: a warning is logged
StartOnRunning ==
    /\ ~LoopBlocked
    /\ is_recording
    /\ UNCHANGED <<supVars, segVars, procVars>>

\* mutant: the monitor is created and the flag set before the launch
StartFails_FlagFirst ==
    /\ ~LoopBlocked
    /\ ~is_recording
    /\ NumMonitors < MaxMonitors
    /\ monitor' = [monitor EXCEPT !.sleep = @ + 1]
    /\ is_recording' = TRUE
    /\ UNCHANGED <<process, procs, last_heartbeat, ingest, stopCall, pauseCall>>
    /\ UNCHANGED <<segVars, procVars>>

\* WebcamCapture.start, Popen raising: the error is logged twice and
\* re-raised before self.process, the tasks or the flag are touched
StartFails ==
    /\ ~LoopBlocked
    /\ ~is_recording
    /\ UNCHANGED <<supVars, segVars, procVars>>

\* WebcamCapture.stop on a session that is not recording
StopOnStopped ==
    /\ ~LoopBlocked
    /\ ~is_recording
    /\ UNCHANGED <<supVars, segVars, procVars>>

\* a start() that changes nothing: on a running session, or Popen raising
StartNoop ==
    /\ StartOnRunning \/ StartFails
    /\ UNCHANGED histVars

\* WebcamCapture.stop up to its await
Stop ==
    /\ ~LoopBlocked
    /\ is_recording
    /\ stopCall.pc = "idle"
    /\ is_recording' = FALSE
    /\ IF process # NoProc
       THEN /\ procs' = Terminate(procs, process)
            /\ stopCall' = [pc |-> "wait", pid |-> process]
       ELSE UNCHANGED <<procs, stopCall>>
    /\ UNCHANGED <<process, last_heartbeat, monitor, ingest, pauseCall>>
    /\ UNCHANGED <<histVars, segVars, procVars>>

\* stop(): the awaited process.wait returned within the timeout
StopWaitDone ==
    /\ ~LoopBlocked
    /\ stopCall.pc = "wait"
    /\ procs[stopCall.pid] = "exited"
    /\ stopCall' = Idle
    /\ UNCHANGED <<is_recording, process, procs, last_heartbeat, monitor, ingest,
                   pauseCall>>
    /\ UNCHANGED <<histVars, segVars, procVars>>

\* stop(): asyncio.TimeoutError, self.process.kill() (on whatever self.process
\* is by now; an AttributeError on None is caught and logged)
StopTimeout ==
    /\ ~LoopBlocked
    /\ stopCall.pc = "wait"
    /\ Running(stopCall.pid)
    /\ stopCall' = Idle
    /\ IF process # NoProc
       THEN procs' = [procs EXCEPT ![process] = "exited"]
       ELSE UNCHANGED procs
    /\ UNCHANGED <<is_recording, process, last_heartbeat, monitor, ingest,
                   pauseCall>>
    /\ UNCHANGED <<histVars, segVars, procVars>>

\* the test at the top of `while self.is_recording` in _monitor_capture, for
\* a task leaving position `from`: back to sleep(30), or the task ends
MonitorLoopTest(from) ==
    IF is_recording
    THEN IF from = "sleep" THEN monitor
         ELSE [monitor EXCEPT !.delay = @ - 1, !.sleep = @ + 1]
    ELSE IF from = "sleep" THEN [monitor EXCEPT !.sleep = @ - 1]
         ELSE [monitor EXCEPT !.delay = @ - 1]

\* _restart_capture up to `await self._wait_for_process()`
RestartBegin ==
    /\ procs' = Terminate(procs, process)
    /\ monitor' = [monitor EXCEPT !.sleep = @ - 1, !.wait[process] = @ + 1]

\* mutant: the health check without its poll() of the process
HealthCheck_NoPoll ==
    /\ ~LoopBlocked
    /\ monitor.sleep > 0
    /\ IF process # NoProc /\ last_heartbeat = "stale"
       THEN RestartBegin
       ELSE /\ monitor' = MonitorLoopTest("sleep")
            /\ UNCHANGED procs
    /\ UNCHANGED <<is_recording, process, last_heartbeat, ingest, stopCall,
                   pauseCall, procVars>>

\* _monitor_capture waking from asyncio.sleep(30): one health check
HealthCheck ==
    /\ ~LoopBlocked
    /\ monitor.sleep > 0
    /\ IF process # NoProc /\ (procs[process] = "exited" \/ last_heartbeat = "stale")
       THEN RestartBegin
       ELSE /\ monitor' = MonitorLoopTest("sleep")
            /\ UNCHANGED procs
    /\ UNCHANGED <<is_recording, process, last_heartbeat, ingest, stopCall,
                   pauseCall, procVars>>

\* _restart_capture: process.wait returned, now in asyncio.sleep(2)
RestartWaitDone(p) ==
    /\ ~LoopBlocked
    /\ monitor.wait[p] > 0
    /\ procs[p] = "exited"
    /\ monitor' = [monitor EXCEPT !.wait[p] = @ - 1, !.delay = @ + 1]
    /\ UNCHANGED <<is_recording, process, procs, last_heartbeat, ingest,
                   stopCall, pauseCall>>
    /\ UNCHANGED <<histVars, segVars, procVars>>

\* _restart_capture after the delay: _start_capture_process succeeds, then
\* back to the loop test of _monitor_capture
RestartLaunch ==
    /\ ~LoopBlocked
    /\ monitor.delay > 0
    /\ Launch
    /\ monitor' = MonitorLoopTest("delay")
    /\ UNCHANGED <<is_recording, last_heartbeat, stopCall, pauseCall>>
    /\ UNCHANGED <<histVars, segVars, procVars>>

\* _restart_capture after the delay: Popen raises, the error is logged
RestartLaunchFails ==
    /\ ~LoopBlocked
    /\ monitor.delay > 0
    /\ monitor' = MonitorLoopTest("delay")
    /\ UNCHANGED <<is_recording, process, procs, last_heartbeat, ingest,
                   stopCall, pauseCall>>
    /\ UNCHANGED <<histVars, segVars, procVars>>

\* pause_video up to its await
PauseVideo ==
    /\ ~LoopBlocked
    /\ is_recording
    /\ pauseCall.pc = "idle"
    /\ process # NoProc
    /\ procs' = Terminate(procs, process)
    /\ pauseCall' = [pc |-> "wait", pid |-> process]
    /\ UNCHANGED <<is_recording, process, last_heartbeat, monitor, ingest,
                   stopCall>>
    /\ UNCHANGED <<histVars, segVars, procVars>>

\* pause_video: process.wait returned, self.process = None
PauseWaitDone ==
    /\ ~LoopBlocked
    /\ pauseCall.pc = "wait"
    /\ procs[pauseCall.pid] = "exited"
    /\ pauseCall' = Idle
    /\ process' = NoProc
    /\ UNCHANGED <<is_recording, procs, last_heartbeat, monitor, ingest,
                   stopCall>>
    /\ UNCHANGED <<histVars, segVars, procVars>>

\* resume_video with self.process None, Popen succeeding
ResumeVideo ==
    /\ ~LoopBlocked
    /\ process = NoProc
    /\ Launch
    /\ UNCHANGED <<is_recording, last_heartbeat, monitor, stopCall, pauseCall>>
    /\ UNCHANGED <<histVars, segVars, procVars>>

\* the subprocess exits: on its own (a crash), or after terminate()
ProcExit(p) ==
    /\ Running(p)
    /\ procs' = [procs EXCEPT ![p] = "exited"]
    /\ UNCHANGED <<is_recording, process, last_heartbeat, monitor, ingest,
                   stopCall, pauseCall>>
    /\ UNCHANGED <<histVars, segVars, procVars>>

\* more than 60 s pass without a frame reaching the audio processor
HeartbeatAges ==
    /\ last_heartbeat = "fresh"
    /\ last_heartbeat' = "stale"
    /\ UNCHANGED <<is_recording, process, procs, monitor, ingest, stopCall,
                   pauseCall>>
    /\ UNCHANGED <<histVars, segVars, procVars>>

\* mutant: the loop test fails whatever the state
IngestLoopTest_Fails == Idle

\* the loop test of _process_audio_stream followed by the call of read() on
\* the stdout of what self.process is now
IngestLoopTest ==
    IF is_recording /\ process # NoProc
    THEN [pc |-> "reading", pid |-> process]
    ELSE Idle

\* _process_audio_stream is scheduled for the first time
IngestBegin(p) ==
    /\ ~LoopBlocked
    /\ ingest[p].pc = "ready"
    /\ ingest' = [ingest EXCEPT ![p] = IngestLoopTest]
    /\ UNCHANGED <<is_recording, process, procs, last_heartbeat, monitor,
                   stopCall, pauseCall>>
    /\ UNCHANGED <<histVars, segVars, procVars>>

\* read() returns the chunks that complete a frame; process_chunk suspends
\* on its executor call (VAD inference, transcription)
IngestFrame(p) ==
    /\ ingest[p].pc = "reading"
    /\ Running(ingest[p].pid)
    /\ ingest' = [ingest EXCEPT ![p] = [pc |-> "awaiting", pid |-> NoProc]]
    /\ UNCHANGED <<is_recording, process, procs, last_heartbeat, monitor,
                   stopCall, pauseCall>>
    /\ UNCHANGED <<histVars, segVars, procVars>>

\* read() returns b"": the pipe's writer has exited
IngestEOF(p) ==
    /\ ingest[p].pc = "reading"
    /\ procs[ingest[p].pid] = "exited"
    /\ ingest' = [ingest EXCEPT ![p] = Idle]
    /\ UNCHANGED <<is_recording, process, procs, last_heartbeat, monitor,
                   stopCall, pauseCall>>
    /\ UNCHANGED <<histVars, segVars, procVars>>

\* process_chunk returns: heartbeat, loop test, next read()
IngestResume(p) ==
    /\ ~LoopBlocked
    /\ ingest[p].pc = "awaiting"
    /\ last_heartbeat' = "fresh"
    /\ ingest' = [ingest EXCEPT ![p] = IngestLoopTest]
    /\ UNCHANGED <<is_recording, process, procs, monitor, stopCall, pauseCall>>
    /\ UNCHANGED <<histVars, segVars, procVars>>

(***************************************************************************)
(* Text: a string is a sequence of one-character strings.                  *)
(***************************************************************************)
Lower(c) == IF c = "A" THEN "a" ELSE IF c = "B" THEN "b" ELSE c

\* str.lower
LowerText(t) == [i \in 1..Len(t) |-> Lower(t[i])]

\* str.strip
RECURSIVE Strip(_)
Strip(t) ==
    IF t = <<>> THEN t
    ELSE IF Head(t) = " " THEN Strip(Tail(t))
    ELSE IF t[Len(t)] = " " THEN Strip(SubSeq(t, 1, Len(t) - 1))
    ELSE t

\* `p in t` of two strings
IsSubstring(p, t) ==
    \E i \in 0..(Len(t) - Len(p)) : SubSeq(t, i + 1, i + Len(p)) = p

(***************************************************************************)
(* AudioProcessor                                                          *)
(***************************************************************************)
\* the trailing window of _handle_voice_detected, in seconds
RetentionSec == 10
\* the number of segments _handle_voice_detected asks for
MinSegments == 3
\* settings.activation.cooldown_sec
cooldown_sec == 2

\* the instants at which the model looks at the clock, and the timestamps a
\* caller may pass to process_chunk
TimePoints == {10, 11, 12, 20, 22}
\* the window of the model holds at most this many segments
MaxSegs == 3
\* the longest transcript
MaxTextLen == 3

Chars == {"a", "B", " "}
\* every text of at most MaxTextLen characters
AllTexts == UNION {[1..n -> Chars] : n \in 0..MaxTextLen}

\* the commands of ActivationSettings.phrases, in the order in which __init__
\* enters them in the dict, with the handler each is bound to
Commands == <<"start_recording", "mark_important", "analyze_content",
              "show_status", "pause_recording">>

\* d[k] = v of a dict: a key already present keeps its place
DictSet(d, k, v) ==
    IF \E i \in 1..Len(d) : d[i].phrase = k
    THEN [i \in 1..Len(d) |-> IF d[i].phrase = k THEN [phrase |-> k, handler |-> v]
                                                ELSE d[i]]
    ELSE Append(d, [phrase |-> k, handler |-> v])

\* the dict display of __init__: one entry per command, in order
RECURSIVE BuildTable(_, _)
BuildTable(phrases, n) ==
    IF n = 0 THEN <<>>
    ELSE DictSet(BuildTable(phrases, n - 1), phrases[n], Commands[n])

\* chunk: the call reached the statistics update (ran), the outcome of the
\* VAD backend, the segments evicted, _check_for_activation_phrases called,
\* the frame appended to audio_buffer
NoChunk == [ran |-> FALSE, vad |-> "none", evicted |-> 0, checked |-> FALSE,
            buffered |-> FALSE]
\* att: how the attempt ended, Whisper invoked, the transcript, the handlers
\* called, the records handed to the journal, last_activation_time assigned;
\* failed: _transcribe_audio caught an exception of the model
NoAttempt == [kind |-> "none", transcribed |-> FALSE, failed |-> FALSE,
              text |-> <<>>, calls |-> <<>>, events |-> <<>>,
              stamped |-> FALSE]

\* AudioProcessor.__init__ with the phrases of the settings
ProcInitWith(phrases) ==
    /\ is_running = FALSE
    /\ vad_loaded = FALSE
    /\ whisper_loaded = FALSE
    /\ voice_segments = <<>>
    /\ last_activation_time = 0
    /\ activation_phrases = BuildTable(phrases, Len(Commands))
    /\ now = 10
    /\ chunk = NoChunk
    /\ att = NoAttempt

\* the phrases of the model's default settings
DefaultPhrases == << <<"a", "b">>, <<"a">>, <<"b", "a">>, <<"b", " ", "b">>, <<"B">> >>

ProcInit == ProcInitWith(DefaultPhrases)

\* mutant: an exception of the backend is answered True
DetectVoiceActivity_FailOpen(v) ==
    IF ~vad_loaded THEN FALSE ELSE v \in {"voice", "raise"}

\* SileroVAD/WebRTCVAD.detect_voice_activity: the outcome of the backend is
\* "voice", "silence" or "raise"; without a model the answer is False, and an
\* exception of the backend is caught and answered False
DetectVoiceActivity(v) ==
    IF ~vad_loaded THEN FALSE
    ELSE IF v = "raise" THEN FALSE
    ELSE v = "voice"

\* _transcribe_audio: None without a model or when transcribe raises, else
\* the stripped text
TranscribeAudio(raw) ==
    IF ~whisper_loaded THEN [ok |-> FALSE, text |-> <<>>]
    ELSE IF raw = <<"raise">> THEN [ok |-> FALSE, text |-> <<>>]
    ELSE [ok |-> TRUE, text |-> Strip(raw)]

\* mutant: the loop without its break, the last phrase in the text winning
RECURSIVE MatchLoop_NoBreak(_, _, _)
MatchLoop_NoBreak(table, i, text_lower) ==
    IF i > Len(table) THEN 0
    ELSE LET later == MatchLoop_NoBreak(table, i + 1, text_lower)
         IN IF later # 0 THEN later
            ELSE IF IsSubstring(table[i].phrase, text_lower) THEN i
            ELSE 0

\* the for loop over self.activation_phrases.items() with its break: the
\* index of the first phrase, from i on, that is in text_lower; 0 if none
RECURSIVE MatchLoop(_, _, _)
MatchLoop(table, i, text_lower) ==
    IF i > Len(table) THEN 0
    ELSE IF IsSubstring(table[i].phrase, text_lower) THEN i
    ELSE MatchLoop(table, i + 1, text_lower)

\* the record handed to vault_writer.write_transcription; written: the
\* journal did not raise
Transcription(text, is_activation, activation_command, j) ==
    [text |-> text, is_activation |-> is_activation,
     activation_command |-> activation_command, written |-> j = "ok"]

\* the handler raised inside the try block: the statements after `await
\* handler()` and the journal write are skipped
HandlerRaised(i) ==
    [kind |-> "handler_error", calls |-> <<activation_phrases[i].handler>>,
     events |-> <<>>, stamp |-> FALSE]

\* the handler returned: the cooldown is stamped and the activation written
HandlerReturned(i, text, j) ==
    [kind |-> "match", calls |-> <<activation_phrases[i].handler>>,
     events |-> <<Transcription(text, TRUE, activation_phrases[i].phrase, j)>>,
     stamp |-> TRUE]

\* mutant: a transcript without a phrase consumes the cooldown
NoPhrase_Stamps(text, j) ==
    [kind |-> "nomatch", calls |-> <<>>,
     events |-> <<Transcription(text, FALSE, <<"None">>, j)>>, stamp |-> TRUE]

\* no phrase is in the text: the transcription is written as no activation
NoPhrase(text, j) ==
    [kind |-> "nomatch", calls |-> <<>>,
     events |-> <<Transcription(text, FALSE, <<"None">>, j)>>, stamp |-> FALSE]

\* mutant: an empty transcript is written to the journal all the same
NoText_Written ==
    [kind |-> "notext", calls |-> <<>>,
     events |-> <<[text |-> <<>>, is_activation |-> FALSE,
                   activation_command |-> <<"None">>, written |-> TRUE]>>,
     stamp |-> FALSE]

\* `if text:` is false: the attempt ends
NoText == [kind |-> "notext", calls |-> <<>>, events |-> <<>>, stamp |-> FALSE]

\* the body of _check_for_activation_phrases once the cooldown test has
\* passed: r is what _transcribe_audio returned, h and j the outcomes ("ok"
\* or "raise") of the handler and of the journal write
AttemptBody(r, h, j) ==
    IF ~(r.ok /\ r.text # <<>>)
    THEN NoText
    ELSE LET text_lower == Strip(LowerText(r.text))
             i == MatchLoop(activation_phrases, 1, text_lower)
         IN IF i = 0 THEN NoPhrase(r.text, j)
            ELSE IF h = "raise" THEN HandlerRaised(i)
            ELSE HandlerReturned(i, r.text, j)

\* mutant: no cooldown test
Gated_Never(current_time) == FALSE

\* the cooldown test of _check_for_activation_phrases
Gated(current_time) == current_time - last_activation_time < cooldown_sec

\* the instants at which a transcription started at `now` may end
Latencies == {t \in TimePoints : t >= now}

\* _check_for_activation_phrases; Raws is what Whisper may return, Hs and Js
\* the possible outcomes of the handler and of the journal write
CheckForActivationPhrases(Raws, Lats, Hs, Js) ==
    LET current_time == now
    IN IF Gated(current_time)
       THEN /\ att' = [NoAttempt EXCEPT !.kind = "gated"]
            /\ UNCHANGED <<last_activation_time, now>>
       ELSE \E raw \in (IF whisper_loaded THEN Raws ELSE {<<>>}),
               lat \in (IF whisper_loaded THEN Lats ELSE {now}) :
            LET r == TranscribeAudio(raw)
                matching == r.ok /\ r.text # <<>>
                matched == matching /\
                    MatchLoop(activation_phrases, 1, Strip(LowerText(r.text))) # 0
            IN \E h \in (IF matched THEN Hs ELSE {"ok"}) :
               \E j \in (IF matching /\ h = "ok" THEN Js ELSE {"ok"}) :
               LET a == AttemptBody(r, h, j)
               IN /\ att' = [kind |-> a.kind, transcribed |-> whisper_loaded,
                             failed |-> whisper_loaded /\ ~r.ok,
                             text |-> r.text, calls |-> a.calls,
                             events |-> a.events, stamped |-> a.stamp]
                  /\ last_activation_time' =
                         IF a.stamp THEN current_time ELSE last_activation_time
                  /\ now' = lat

\* mutant: the cutoff is taken ten minutes back instead of ten seconds
Retained_Minutes(segs, timestamp) ==
    SelectSeq(segs, LAMBDA t : t > timestamp - 60 * RetentionSec)

\* the list comprehension of _handle_voice_detected
Retained(segs, timestamp) ==
    SelectSeq(segs, LAMBDA t : t > timestamp - RetentionSec)

\* mutant: the recognizer is asked whatever the window holds
SufficientVoice_Always(segs) == TRUE

\* `if len(self.voice_segments) >= 3` of _handle_voice_detected
SufficientVoice(segs) == Len(segs) >= MinSegments

\* process_chunk(audio_data, timestamp) on a running processor; v is the
\* outcome of the VAD backend, or "throws" when detect_voice_activity itself
\* raises into process_chunk, whose except clause logs the error and skips
\* the rest of the try block, the statistics update included
ProcessChunk(timestamp, v, Raws, Lats, Hs, Js) ==
    /\ is_running
    /\ LET has_voice == DetectVoiceActivity(v)
           segs == Retained(Append(voice_segments, timestamp), timestamp)
       IN /\ chunk' = [ran |-> v # "throws", vad |-> v,
                       evicted |-> IF has_voice
                                   THEN Len(voice_segments) + 1 - Len(segs)
                                   ELSE 0,
                       checked |-> has_voice /\ SufficientVoice(segs),
                       buffered |-> TRUE]
          /\ IF has_voice
             THEN /\ Len(segs) <= MaxSegs
                  /\ voice_segments' = segs
                  /\ IF SufficientVoice(segs)
                     THEN CheckForActivationPhrases(Raws, Lats, Hs, Js)
                     ELSE /\ att' = NoAttempt
                          /\ UNCHANGED <<last_activation_time, now>>
             ELSE /\ att' = NoAttempt
                  /\ UNCHANGED <<voice_segments, last_activation_time, now>>
    /\ UNCHANGED <<is_running, vad_loaded, whisper_loaded, activation_phrases>>

\* mutant: the frame is buffered and counted before the running test
ProcessChunkNotRunning_Buffers ==
    /\ ~is_running
    /\ chunk' = [NoChunk EXCEPT !.buffered = TRUE, !.ran = TRUE]
    /\ att' = NoAttempt
    /\ UNCHANGED <<is_running, vad_loaded, whisper_loaded, voice_segments,
                   last_activation_time, activation_phrases, now>>

\* process_chunk on a processor that is not running
ProcessChunkNotRunning ==
    /\ ~is_running
    /\ chunk' = NoChunk
    /\ att' = NoAttempt
    /\ UNCHANGED <<is_running, vad_loaded, whisper_loaded, voice_segments,
                   last_activation_time, activation_phrases, now>>

\* AudioProcessor.start: the VAD is initialized and Whisper loaded
ProcStart ==
    /\ ~is_running
    /\ is_running' = TRUE
    /\ vad_loaded' = TRUE
    /\ whisper_loaded' = TRUE
    /\ UNCHANGED <<voice_segments, last_activation_time, activation_phrases,
                   now, chunk, att>>

\* AudioProcessor.stop: the VAD is cleaned up, the Whisper model stays
ProcStop ==
    /\ is_running
    /\ is_running' = FALSE
    /\ vad_loaded' = FALSE
    /\ UNCHANGED <<whisper_loaded, voice_segments, last_activation_time,
                   activation_phrases, now, chunk, att>>

\* time passes
Tick ==
    /\ \E t \in TimePoints : t > now /\ now' = t
    /\ UNCHANGED <<is_running, vad_loaded, whisper_loaded, voice_segments,
                   last_activation_time, activation_phrases, chunk, att>>

VadOutcomes == {"voice", "silence", "raise"}
CallOutcomes == {"ok", "raise"}
\* what Whisper returns in the model of the processor: a text with a phrase
\* in it, or an exception
ProcTexts == {<<"a", "b">>, <<"raise">>}

\* process_chunk called with any timestamp
ProcChunkCall ==
    /\ \E timestamp \in TimePoints, v \in VadOutcomes :
          ProcessChunk(timestamp, v, ProcTexts, Latencies, CallOutcomes, CallOutcomes)
    /\ UNCHANGED <<supVars, histVars, segVars>>

ProcChunkNotRunning == ProcessChunkNotRunning /\ UNCHANGED <<supVars, histVars, segVars>>
ProcStartCall == ProcStart /\ UNCHANGED <<supVars, histVars, segVars>>
ProcStopCall == ProcStop /\ UNCHANGED <<supVars, histVars, segVars>>
ProcTick == Tick /\ UNCHANGED <<supVars, histVars, segVars>>

(***************************************************************************)
(* _process_audio_stream in detail: the buffer and the frames.  Byte k is  *)
(* the k-th byte read() has returned to the task.  The sizes are those of  *)
(* the source scaled down: 32000 bytes to a frame, reads of up to 1024.    *)
(***************************************************************************)
\* `if len(buffer) >= 32000`
FrameBytes == 3
\* chunk_size = 1024
ChunkSize == 2
\* the bytes the process writes before the model stops reading
StreamLen == 12

\* mutant: the whole buffer is handed over
SliceFrame_WholeBuffer(buf) == [audio_data |-> buf, rest |-> <<>>]

\* audio_data = buffer[:32000]; buffer = buffer[32000:]
SliceFrame(buf) ==
    [audio_data |-> SubSeq(buf, 1, FrameBytes),
     rest |-> SubSeq(buf, FrameBytes + 1, Len(buf))]

\* mutant: the handler of the inner try leaves the loop
IngestExcept_Break == "ended"

\* `except Exception: ... continue` inside the while loop
IngestExcept == "running"

\* `while self.is_recording and self.process`
SegLoopTest == seg.pc = "running" /\ is_recording /\ process # NoProc

\* the error a process_chunk call has contained, from what it left behind
ErrorSite(c, a) ==
    IF c.vad = "raise" THEN "classification"
    ELSE IF a.failed THEN "transcription"
    ELSE IF a.kind = "handler_error" THEN "handler"
    ELSE IF \E n \in 1..Len(a.events) : ~a.events[n].written THEN "journal"
    ELSE "none"

\* the task is scheduled for the first time: `if not self.process: return`
SegBegin ==
    /\ seg.pc = "idle"
    /\ process # NoProc
    /\ ingest[process].pc = "ready"
    /\ seg' = [seg EXCEPT !.pc = "running"]
    /\ UNCHANGED <<supVars, histVars, procVars, pipe>>

\* one iteration: read() returns k bytes; when the buffer holds a frame it
\* is sliced off and handed to process_chunk: o = "raise" is a processor
\* whose process_chunk raises, otherwise AudioProcessor.process_chunk runs
SegRead ==
    /\ SegLoopTest
    /\ Running(process)
    /\ \E k \in 1..ChunkSize :
        /\ seg.read + k <= StreamLen
        /\ LET buf == seg.buffer \o [i \in 1..k |-> seg.read + i]
           IN IF Len(buf) >= FrameBytes
              THEN \E o \in CallOutcomes :
                   /\ IF o = "raise" THEN UNCHANGED procVars
                      ELSE IF is_running
                      THEN \E v \in VadOutcomes :
                               ProcessChunk(now, v, ProcTexts, {now},
                                            CallOutcomes, CallOutcomes)
                      ELSE ProcessChunkNotRunning
                   /\ seg' = [pc |-> IF o = "raise" THEN IngestExcept
                                     ELSE "running",
                              buffer |-> SliceFrame(buf).rest,
                              read |-> seg.read + k,
                              frames |-> Append(seg.frames,
                                                SliceFrame(buf).audio_data),
                              err |-> IF o = "raise" THEN "process_chunk"
                                      ELSE ErrorSite(chunk', att'),
                              prev |-> seg.err]
                   /\ last_heartbeat' = IF o = "raise" THEN last_heartbeat
                                        ELSE "fresh"
              ELSE /\ seg' = [seg EXCEPT !.buffer = buf, !.read = @ + k,
                                         !.err = "none", !.prev = seg.err]
                   /\ UNCHANGED <<last_heartbeat, procVars>>
    /\ UNCHANGED <<is_recording, process, procs, monitor, ingest, stopCall,
                   pauseCall, histVars, pipe>>

\* one iteration: read() raises
SegReadRaises ==
    /\ SegLoopTest
    /\ seg' = [seg EXCEPT !.pc = IngestExcept, !.err = "read",
                          !.prev = seg.err]
    /\ UNCHANGED <<supVars, histVars, procVars, pipe>>

\* read() returns b"": `if not chunk: break`
SegEOF ==
    /\ SegLoopTest
    /\ procs[process] = "exited"
    /\ seg' = [seg EXCEPT !.pc = "ended", !.err = "none", !.prev = seg.err]
    /\ UNCHANGED <<supVars, histVars, procVars, pipe>>

\* the loop test fails
SegLoopExit ==
    /\ seg.pc = "running"
    /\ ~SegLoopTest
    /\ seg' = [seg EXCEPT !.pc = "ended", !.err = "none", !.prev = seg.err]
    /\ UNCHANGED <<supVars, histVars, procVars, pipe>>

\* AudioSettings as main.py declares it
DefaultAudio == [sample_rate |-> 16000, channels |-> 1, chunk_duration_sec |-> 1]

\* the settings of the session, and no frame cut and no VAD call made yet
\* the stems of the videos handed to store_video, as sequences of name
\* parts; the timestamp store_video puts in front is left out
Stems == {<<"clip">>, <<"clip", "_compressed">>}
\* no metadata file
NoMeta == [exists |-> FALSE, storage_tier |-> "none", importance |-> "none"]
\* the directories StorageManager.__init__ creates
EmptyStorage ==
    [hot |-> {}, warm |-> {}, cold |-> {},
     meta |-> [id \in Stems |-> NoMeta],
     stored |-> {}, marked |-> {}]

\* the stats dict of SileroVAD.__init__ and WebRTCVAD.__init__; no call has
\* been made; last: whether the last call found the backend loaded, what it
\* returned, whether it reached the statistics update
NoDetections ==
    [detections_total |-> 0, voice_detected |-> 0, silence_detected |-> 0,
     inflight |-> 0,
     last |-> [loaded |-> FALSE, result |-> FALSE, counted |-> FALSE]]

AudioInit(a) ==
    /\ settings = a
    /\ framing = [buffered |-> 0, frame_len |-> 0, frames |-> 0]
    /\ webrtc = [pc |-> "idle", len |-> 0, i |-> 0, voice_frames |-> 0,
                 total_frames |-> 0, speech |-> 0, quiet |-> 0, errors |-> 0,
                 partial |-> 0, looped |-> FALSE, has_voice |-> FALSE]
    /\ vadstats = NoDetections
    /\ storage = EmptyStorage

LogInit ==
    /\ restarts = 0
    /\ dispatch_log = [prev |-> 0, last |-> 0]
    /\ call = [op |-> "none", seq |-> 0]
    /\ app = "new"
    /\ seg = [pc |-> "idle", buffer |-> <<>>, read |-> 0, frames |-> <<>>,
              err |-> "none", prev |-> "none"]
    /\ pipe = [read |-> 0, buffer |-> [p \in Pids |-> <<>>], frames |-> <<>>,
               stamps |-> <<>>]

HistInit == LogInit /\ AudioInit(DefaultAudio)

\* one health check, the history variable left alone
MonitorCheck == HealthCheck /\ UNCHANGED <<histVars, segVars>>

\* one health check, counted in the history variable when it enters
\* _restart_capture
MonitorCheckCounted ==
    /\ HealthCheck
    /\ restarts' = IF SumOver(monitor'.wait, Pids) > SumOver(monitor.wait, Pids)
                      /\ restarts < RestartCountCap
                   THEN restarts + 1 ELSE restarts
    /\ UNCHANGED <<dispatch_log, call, app, audioVars, segVars>>

Init == SupInit /\ HistInit /\ ProcInit

Next ==
    \/ Start
    \/ StartNoop
    \/ Stop
    \/ StopWaitDone
    \/ StopTimeout
    \/ PauseVideo
    \/ PauseWaitDone
    \/ ResumeVideo
    \/ HeartbeatAges
    \/ MonitorCheck
    \/ RestartLaunch
    \/ RestartLaunchFails
    \/ \E p \in Pids : RestartWaitDone(p)
    \/ \E p \in Pids : ProcExit(p)
    \/ \E p \in Pids : IngestBegin(p)
    \/ \E p \in Pids : IngestFrame(p)
    \/ \E p \in Pids : IngestEOF(p)
    \/ \E p \in Pids : IngestResume(p)

Spec == Init /\ [][Next]_vars

\* One session whose subprocess may exit whenever it runs: start() is called,
\* nobody calls stop(), pause_video() or resume_video(), and every Popen
\* succeeds. The restarts are counted.
NextRestart ==
    \/ Start
    \/ HeartbeatAges
    \/ MonitorCheckCounted
    \/ RestartLaunch
    \/ \E p \in Pids : RestartWaitDone(p)
    \/ \E p \in Pids : ProcExit(p)
    \/ \E p \in Pids : IngestBegin(p)
    \/ \E p \in Pids : IngestFrame(p)
    \/ \E p \in Pids : IngestEOF(p)
    \/ \E p \in Pids : IngestResume(p)

SpecRestart == Init /\ [][NextRestart]_vars

\* Sessions driven by start() and stop() alone: nobody calls pause_video()
\* or resume_video(), and every Popen succeeds.
NextSession ==
    \/ Start
    \/ Stop
    \/ StopWaitDone
    \/ StopTimeout
    \/ HeartbeatAges
    \/ MonitorCheck
    \/ RestartLaunch
    \/ \E p \in Pids : RestartWaitDone(p)
    \/ \E p \in Pids : ProcExit(p)
    \/ \E p \in Pids : IngestBegin(p)
    \/ \E p \in Pids : IngestFrame(p)
    \/ \E p \in Pids : IngestEOF(p)
    \/ \E p \in Pids : IngestResume(p)

SpecSession == Init /\ [][NextSession]_vars

\* What the event loop guarantees: a timer that has expired, an executor
\* future that is done and a task that is ready are run once the loop is
\* free. Nothing is assumed of the subprocess: it need not write and need
\* not exit.
LoopFairness ==
    /\ WF_vars(MonitorCheck)
    /\ WF_vars(RestartLaunch)
    /\ WF_vars(StopWaitDone)
    /\ WF_vars(StopTimeout)
    /\ \A p \in Pids : /\ WF_vars(RestartWaitDone(p))
                       /\ WF_vars(IngestBegin(p))
                       /\ WF_vars(IngestEOF(p))
                       /\ WF_vars(IngestResume(p))

SpecSessionFair == SpecSession /\ LoopFairness

\* the calls that return at once, logged
LoggedStartOnRunning ==
    /\ StartOnRunning
    /\ call' = [op |-> "start", seq |-> 1 - call.seq]
    /\ UNCHANGED <<restarts, dispatch_log, app, audioVars>>

LoggedStartFails ==
    /\ StartFails
    /\ call' = [op |-> "start_failed", seq |-> 1 - call.seq]
    /\ UNCHANGED <<restarts, dispatch_log, app, audioVars>>

LoggedStopOnStopped ==
    /\ StopOnStopped
    /\ call' = [op |-> "stop", seq |-> 1 - call.seq]
    /\ UNCHANGED <<restarts, dispatch_log, app, audioVars>>

\* Sessions in which start() and stop() are also called when they have
\* nothing to do, and in which Popen may fail
NextCalls ==
    \/ Start
    \/ LoggedStartOnRunning
    \/ LoggedStartFails
    \/ Stop
    \/ LoggedStopOnStopped
    \/ StopWaitDone
    \/ StopTimeout
    \/ MonitorCheck
    \/ RestartLaunch
    \/ RestartLaunchFails
    \/ \E p \in Pids : RestartWaitDone(p)
    \/ \E p \in Pids : ProcExit(p)

SpecCalls == Init /\ [][NextCalls]_vars

\* The audio processor alone, called with any timestamps
InitProc == SupInit /\ HistInit /\ ProcInit

NextProc ==
    \/ ProcStartCall
    \/ ProcStopCall
    \/ ProcChunkCall
    \/ ProcChunkNotRunning
    \/ ProcTick

SpecProc == InitProc /\ [][NextProc]_vars

\* the phrases of settings.activation.phrases: tables with overlapping phrases in both
\* orders, a phrase configured twice, and phrases with capitals and blanks
SettingsChoices ==
    { DefaultPhrases,
      << <<"a">>, <<"a", "b">>, <<"b">>, <<"b", "a">>, <<"a", "b">> >>,
      << <<"b", " ", "a">>, <<"b">>, <<"a", " ">>, <<"a", "a">>, <<"a">> >>,
      << <<"a", "B">>, <<"b", "b">>, <<"a", "b">>, <<"a">>, <<" ">> >> }

\* what Whisper may answer: every text, or an exception
RecogTexts == AllTexts \cup {<<"raise">>}

\* process_chunk on a voice frame of this moment, any transcript coming back
\* at once
RecogChunkCall ==
    /\ ProcessChunk(now, "voice", RecogTexts, {now}, CallOutcomes, {"ok"})
    /\ UNCHANGED <<supVars, histVars, segVars>>

InitRecog == SupInit /\ HistInit /\ \E phrases \in SettingsChoices : ProcInitWith(phrases)

NextRecog ==
    \/ ProcStartCall
    \/ RecogChunkCall

\* the recognizer at one instant, under any phrase table and any transcript
SpecRecog == InitRecog /\ [][NextRecog]_vars

NextSeg ==
    \/ ProcStartCall
    \/ Start
    \/ Stop
    \/ \E p \in Pids : ProcExit(p)
    \/ SegBegin
    \/ SegRead
    \/ SegReadRaises
    \/ SegEOF
    \/ SegLoopExit

\* one ingest task followed read by read
SpecSeg == Init /\ [][NextSeg]_vars

\* what Whisper returns in the model of single attempts: a text with a
\* phrase in it, a text with none (after trimming and lowercasing), a blank
\* text, or an exception
AttemptTexts == {<<"a", "b">>, <<"B", " ">>, <<" ">>, <<"raise">>}

\* process_chunk on the frame of this moment, any outcome of the
\* transcription, of the handler and of the journal
AttemptChunkCall ==
    /\ \E v \in VadOutcomes :
           ProcessChunk(now, v, AttemptTexts, Latencies, CallOutcomes, CallOutcomes)
    /\ UNCHANGED <<supVars, histVars, segVars>>

NextAttempt ==
    \/ ProcStartCall
    \/ ProcStopCall
    \/ AttemptChunkCall
    \/ ProcTick

\* the processor fed in real time, every kind of attempt
SpecAttempt == InitProc /\ [][NextAttempt]_vars

\* process_chunk on the frame of this moment, the handler calls logged;
\* every handler returns normally and every journal write succeeds
CooldownChunkCall ==
    /\ \E v \in VadOutcomes : ProcessChunk(now, v, ProcTexts, Latencies, {"ok"}, {"ok"})
    /\ dispatch_log' = IF att'.calls # <<>>
                       THEN [prev |-> dispatch_log.last, last |-> now']
                       ELSE dispatch_log
    /\ UNCHANGED <<supVars, restarts, call, app, audioVars, segVars>>

NextCooldown ==
    \/ ProcStartCall
    \/ ProcStopCall
    \/ CooldownChunkCall
    \/ ProcTick

\* the processor fed in real time, with the handler calls logged
SpecCooldown == InitProc /\ [][NextCooldown]_vars

(***************************************************************************)
(* The process_chunk calls of the ingest tasks, suspension by suspension:  *)
(* every _process_audio_stream task calls the one AudioProcessor, whose    *)
(* VAD and Whisper calls run in the loop's default executor.  The calls of *)
(* one instant: the clock stands still.                                    *)
(***************************************************************************)
\* the window of this model holds at most this many segments
MaxWindow == MaxSegs + 1

\* process_chunk returns to the ingest task: heartbeat, loop test, next read()
ChunkReturns(p) ==
    /\ last_heartbeat' = "fresh"
    /\ ingest' = [ingest EXCEPT ![p] = IngestLoopTest]

\* read() completes a frame and process_chunk is called on a running
\* processor: the call suspends in the run_in_executor of
\* SileroVAD.detect_voice_activity
ChunkSubmitted(p) ==
    /\ is_running /\ vad_loaded
    /\ IngestFrame(p)

\* read() completes a frame and process_chunk is called on a processor that
\* is not running: it returns at once
ChunkDropped(p) ==
    /\ ingest[p].pc = "reading"
    /\ Running(ingest[p].pid)
    /\ ~is_running
    /\ ChunkReturns(p)
    /\ UNCHANGED <<is_recording, process, procs, monitor, stopCall, pauseCall>>
    /\ UNCHANGED <<histVars, segVars, procVars>>

\* the executor call of the VAD is done, v its outcome: process_chunk runs up
\* to the run_in_executor of _transcribe_audio, or to its end
ChunkClassified(p) ==
    /\ ~LoopBlocked
    /\ ingest[p].pc = "awaiting"
    /\ \E v \in VadOutcomes :
           LET has_voice == DetectVoiceActivity(v)
               segs == Retained(Append(voice_segments, now), now)
           IN IF has_voice
              THEN /\ Len(segs) <= MaxWindow
                   /\ voice_segments' = segs
                   /\ IF SufficientVoice(segs) /\ ~Gated(now) /\ whisper_loaded
                      THEN /\ ingest' = [ingest EXCEPT ![p] =
                                  [pc |-> "transcribing", pid |-> NoProc]]
                           /\ UNCHANGED last_heartbeat
                      ELSE ChunkReturns(p)
              ELSE /\ UNCHANGED voice_segments
                   /\ ChunkReturns(p)
    /\ UNCHANGED <<is_recording, process, procs, monitor, stopCall, pauseCall>>
    /\ UNCHANGED <<is_running, vad_loaded, whisper_loaded, last_activation_time,
                   activation_phrases, now, chunk, att>>
    /\ UNCHANGED <<histVars, segVars>>

\* the executor call of Whisper is done: the rest of
\* _check_for_activation_phrases with the current_time taken at its top,
\* then process_chunk returns
ChunkTranscribed(p) ==
    /\ ~LoopBlocked
    /\ ingest[p].pc = "transcribing"
    /\ \E raw \in ProcTexts, h \in CallOutcomes :
           LET a == AttemptBody(TranscribeAudio(raw), h, "ok")
           IN last_activation_time' =
                  IF a.stamp THEN now ELSE last_activation_time
    /\ ChunkReturns(p)
    /\ UNCHANGED <<is_recording, process, procs, monitor, stopCall, pauseCall>>
    /\ UNCHANGED <<is_running, vad_loaded, whisper_loaded, voice_segments,
                   activation_phrases, now, chunk, att>>
    /\ UNCHANGED <<histVars, segVars>>

NextOverlap ==
    \/ ProcStartCall
    \/ Start
    \/ Stop
    \/ StopWaitDone
    \/ MonitorCheck
    \/ RestartLaunch
    \/ \E p \in Pids : RestartWaitDone(p)
    \/ \E p \in Pids : ProcExit(p)
    \/ \E p \in Pids : IngestBegin(p)
    \/ \E p \in Pids : IngestEOF(p)
    \/ \E p \in Pids : ChunkSubmitted(p)
    \/ \E p \in Pids : ChunkDropped(p)
    \/ \E p \in Pids : ChunkClassified(p)
    \/ \E p \in Pids : ChunkTranscribed(p)

\* sessions and restarts with the calls of the processor followed step by step
SpecOverlap == Init /\ [][NextOverlap]_vars

(***************************************************************************)
(* The reads of all ingest tasks, byte by byte.  Byte k is the k-th byte   *)
(* any task's read() has returned; each task has its own buffer.           *)
(***************************************************************************)
\* the bytes the processes write before this model stops reading
PipeLen == 9

\* _process_audio_stream is scheduled for the first time: buffer = b""
PipeBegin(p) ==
    /\ ~LoopBlocked
    /\ ingest[p].pc = "ready"
    /\ ingest' = [ingest EXCEPT ![p] = IngestLoopTest]
    /\ pipe' = [pipe EXCEPT !.buffer[p] = <<>>]
    /\ UNCHANGED <<is_recording, process, procs, last_heartbeat, monitor,
                   stopCall, pauseCall>>
    /\ UNCHANGED <<histVars, seg, procVars>>

\* one iteration of the loop: read() returns k bytes; when the buffer holds
\* a frame it is sliced off and submitted with time.time(), and process_chunk
\* suspends on its executor call
PipeRead(p) ==
    /\ ingest[p].pc = "reading"
    /\ Running(ingest[p].pid)
    /\ \E k \in 1..ChunkSize :
        /\ pipe.read + k <= PipeLen
        /\ LET buf == pipe.buffer[p] \o [i \in 1..k |-> pipe.read + i]
           IN IF Len(buf) >= FrameBytes
              THEN /\ pipe' = [read |-> pipe.read + k,
                               buffer |-> [pipe.buffer EXCEPT
                                              ![p] = SliceFrame(buf).rest],
                               frames |-> Append(pipe.frames,
                                                 SliceFrame(buf).audio_data),
                               stamps |-> Append(pipe.stamps, now)]
                   /\ ingest' = [ingest EXCEPT
                                    ![p] = [pc |-> "awaiting", pid |-> NoProc]]
              ELSE /\ pipe' = [pipe EXCEPT !.read = @ + k, !.buffer[p] = buf]
                   /\ UNCHANGED ingest
    /\ UNCHANGED <<is_recording, process, procs, last_heartbeat, monitor,
                   stopCall, pauseCall>>
    /\ UNCHANGED <<histVars, seg, procVars>>

NextOrder ==
    \/ Start
    \/ Stop
    \/ StopWaitDone
    \/ MonitorCheck
    \/ RestartLaunch
    \/ \E p \in Pids : RestartWaitDone(p)
    \/ \E p \in Pids : ProcExit(p)
    \/ \E p \in Pids : PipeBegin(p)
    \/ \E p \in Pids : PipeRead(p)
    \/ \E p \in Pids : IngestEOF(p)
    \/ \E p \in Pids : IngestResume(p)

\* sessions and restarts with every read of every ingest task followed
SpecOrder == Init /\ [][NextOrder]_vars

\* the wall clock is set back (time.time() is not monotonic)
ClockSetBack ==
    /\ \E t \in TimePoints : t < now /\ now' = t
    /\ UNCHANGED <<is_running, vad_loaded, whisper_loaded, voice_segments,
                   last_activation_time, activation_phrases, chunk, att>>
    /\ UNCHANGED <<supVars, histVars, segVars>>

NextStamp ==
    \/ Start
    \/ ProcTick
    \/ ClockSetBack
    \/ \E p \in Pids : ProcExit(p)
    \/ \E p \in Pids : PipeBegin(p)
    \/ \E p \in Pids : PipeRead(p)
    \/ \E p \in Pids : IngestEOF(p)
    \/ \E p \in Pids : IngestResume(p)

\* one session of one subprocess and one ingest task, with the clock
SpecStamp == Init /\ [][NextStamp]_vars

(***************************************************************************)
(* WebcamCaptureApp.start (src/src/main.py), with the control endpoint of  *)
(* the web API (src/src/web/api.py) served beside it as web_main does.     *)
(***************************************************************************)
\* WebcamCaptureApp.start up to the first executor call of
\* AudioProcessor.start: the storage manager is started and the VAD model
\* is being loaded
AppStartBegin ==
    /\ ~LoopBlocked
    /\ app = "new"
    /\ app' = "loading"
    /\ UNCHANGED <<restarts, dispatch_log, call, audioVars>>
    /\ UNCHANGED <<supVars, segVars, procVars>>

\* AudioProcessor.start returns: the VAD and Whisper are loaded
AppProcessorUp ==
    /\ ~LoopBlocked
    /\ app = "loading"
    /\ ProcStart
    /\ app' = "processor_up"
    /\ UNCHANGED <<restarts, dispatch_log, call, audioVars>>
    /\ UNCHANGED <<supVars, segVars>>

\* AudioProcessor.start raises: vad.initialize failed, or the VAD is loaded
\* and _load_whisper_model failed; WebcamCaptureApp.start logs and re-raises
AppProcessorFails ==
    /\ ~LoopBlocked
    /\ app = "loading"
    /\ ~is_running
    /\ \E v \in BOOLEAN : vad_loaded' = v
    /\ app' = "failed"
    /\ UNCHANGED <<is_running, whisper_loaded, voice_segments,
                   last_activation_time, activation_phrases, now, chunk, att>>
    /\ UNCHANGED <<restarts, dispatch_log, call, audioVars>>
    /\ UNCHANGED <<supVars, segVars>>

\* the startup event is written and WebcamCapture.start launches the capture
AppStartCapture ==
    /\ app = "processor_up"
    /\ StartCapture
    /\ app' = "started"
    /\ UNCHANGED <<restarts, dispatch_log, call, audioVars>>
    /\ UNCHANGED <<segVars, procVars>>

\* write_system_event raises, or WebcamCapture.start does on a failing
\* Popen: the error is logged and re-raised
AppCaptureFails ==
    /\ app = "processor_up"
    /\ StartFails
    /\ app' = "failed"
    /\ UNCHANGED <<restarts, dispatch_log, call, audioVars>>

\* POST /api/control {video, enabled}: resume_video, once the server is up
ApiResumeVideo ==
    /\ app # "new"
    /\ ResumeVideo

NextApp ==
    \/ AppStartBegin
    \/ AppProcessorUp
    \/ AppProcessorFails
    \/ AppStartCapture
    \/ AppCaptureFails
    \/ ApiResumeVideo
    \/ HeartbeatAges
    \/ MonitorCheck
    \/ RestartLaunch
    \/ \E p \in Pids : RestartWaitDone(p)
    \/ \E p \in Pids : ProcExit(p)
    \/ \E p \in Pids : IngestBegin(p)
    \/ \E p \in Pids : IngestFrame(p)
    \/ \E p \in Pids : IngestEOF(p)
    \/ \E p \in Pids : IngestResume(p)

\* the application started once, the control endpoint answering meanwhile
SpecApp == Init /\ [][NextApp]_vars

\* what a call of self.vad.detect_voice_activity may do: the outcomes of the
\* backend, or an exception out of the call itself
DetectorOutcomes == VadOutcomes \cup {"throws"}

\* process_chunk on the frame of this moment, with a detector that may raise
StatsChunkCall ==
    /\ \E v \in DetectorOutcomes :
           ProcessChunk(now, v, ProcTexts, {now}, CallOutcomes, CallOutcomes)
    /\ UNCHANGED <<supVars, histVars, segVars>>

NextStats ==
    \/ ProcStartCall
    \/ ProcStopCall
    \/ StatsChunkCall
    \/ ProcChunkNotRunning
    \/ ProcTick

\* the processor with any detector behind self.vad
SpecStats == InitProc /\ [][NextStats]_vars

(***************************************************************************)
(* The segmenter in bytes, under any audio settings                        *)
(***************************************************************************)
\* the audio settings a session may be configured with
AudioChoices ==
    {[sample_rate |-> r, channels |-> c, chunk_duration_sec |-> d] :
        r \in {8000, 16000, 44100}, c \in {1, 2}, d \in {1, 2}}

\* `if len(buffer) >= 32000`
FrameThreshold == 32000
\* chunk_size = 1024
ReadSize == 1024
\* the frames cut before the model stops
MaxFrames == 2

\* one iteration of the loop of _process_audio_stream: read() returns a
\* whole or half a chunk, and a buffer of at least 32000 bytes has
\* buffer[:32000] sliced off
FramingRead ==
    /\ framing.frames < MaxFrames
    /\ \E k \in {ReadSize \div 2, ReadSize} :
           LET n == framing.buffered + k
           IN framing' = IF n >= FrameThreshold
                         THEN [buffered |-> n - FrameThreshold,
                               frame_len |-> FrameThreshold,
                               frames |-> framing.frames + 1]
                         ELSE [framing EXCEPT !.buffered = n]
    /\ UNCHANGED <<settings, webrtc, vadstats, storage>>
    /\ UNCHANGED <<restarts, dispatch_log, call, app>>
    /\ UNCHANGED <<supVars, segVars, procVars>>

InitFraming ==
    /\ SupInit /\ LogInit /\ ProcInit
    /\ \E a \in AudioChoices : AudioInit(a)

NextFraming ==
    \/ FramingRead

\* the segmenter under every configuration
SpecFraming == InitFraming /\ [][NextFraming]_vars

(***************************************************************************)
(* WebRTCVAD.detect_voice_activity, iteration by iteration                 *)
(***************************************************************************)
\* the sample rates WebRTC VAD takes
SupportedRates == {8000, 16000, 32000, 48000}
\* self.frame_duration_ms
frame_duration_ms == 30
\* the complete sub-frames of the longest audio of the model
MaxSubFrames == 10

\* self.frame_size * 2: the bytes of a sub-frame
SubFrameBytes(rate) == ((rate * frame_duration_ms) \div 1000) * 2

\* the lengths of audio_bytes in the model: whole sub-frames, with and
\* without a trailing half
AudioLens(rate) ==
    {n * SubFrameBytes(rate) + e :
        n \in 0..MaxSubFrames, e \in {0, SubFrameBytes(rate) \div 2}}

\* mutant: three voice sub-frames in ten are enough
VoiceRatio_AtLeast(voice_frames, total_frames) ==
    total_frames > 0 /\ 10 * voice_frames >= 3 * total_frames

\* `if total_frames > 0: has_voice = voice_frames / total_frames > 0.3`
VoiceRatio(voice_frames, total_frames) ==
    total_frames > 0 /\ 10 * voice_frames > 3 * total_frames

WebrtcIdle(len) ==
    [pc |-> "done", len |-> len, i |-> 0, voice_frames |-> 0,
     total_frames |-> 0, speech |-> 0, quiet |-> 0, errors |-> 0,
     partial |-> 0, looped |-> FALSE, has_voice |-> FALSE]

\* detect_voice_activity is called: False at once without a Vad object or
\* with an unsupported sample rate, else the loop over the sub-frames begins
WebrtcCall ==
    /\ webrtc.pc # "loop"
    /\ \E len \in AudioLens(settings.sample_rate) :
           webrtc' = IF ~vad_loaded \/ settings.sample_rate \notin SupportedRates
                     THEN WebrtcIdle(len)
                     ELSE [WebrtcIdle(len) EXCEPT !.pc = "loop",
                                                  !.looped = TRUE]
    /\ UNCHANGED <<settings, framing, vadstats, storage>>
    /\ UNCHANGED <<restarts, dispatch_log, call, app>>
    /\ UNCHANGED <<supVars, segVars, procVars>>

\* one iteration of `for i in range(0, len(audio_bytes), frame_size * 2)`: a
\* slice of full length is given to vad.is_speech, which answers or raises;
\* a shorter one is passed over
WebrtcFrame ==
    /\ webrtc.pc = "loop"
    /\ webrtc.i < webrtc.len
    /\ LET size == SubFrameBytes(settings.sample_rate)
           frame_bytes == Min({size, webrtc.len - webrtc.i})
       IN IF frame_bytes = size
          THEN \E o \in {"speech", "quiet", "raise"} :
                   webrtc' = [webrtc EXCEPT
                       !.i = @ + size,
                       !.voice_frames = IF o = "speech" THEN @ + 1 ELSE @,
                       !.total_frames = IF o = "raise" THEN @ ELSE @ + 1,
                       !.speech = IF o = "speech" THEN @ + 1 ELSE @,
                       !.quiet = IF o = "quiet" THEN @ + 1 ELSE @,
                       !.errors = IF o = "raise" THEN @ + 1 ELSE @]
          ELSE webrtc' = [webrtc EXCEPT !.i = @ + size, !.partial = @ + 1]
    /\ UNCHANGED <<settings, framing, vadstats, storage>>
    /\ UNCHANGED <<restarts, dispatch_log, call, app>>
    /\ UNCHANGED <<supVars, segVars, procVars>>

\* the loop is over: the ratio decides
WebrtcReturn ==
    /\ webrtc.pc = "loop"
    /\ webrtc.i >= webrtc.len
    /\ webrtc' = [webrtc EXCEPT
           !.pc = "done",
           !.has_voice = VoiceRatio(webrtc.voice_frames, webrtc.total_frames)]
    /\ UNCHANGED <<settings, framing, vadstats, storage>>
    /\ UNCHANGED <<restarts, dispatch_log, call, app>>
    /\ UNCHANGED <<supVars, segVars, procVars>>

\* the backend is initialized and cleaned up with the processor, between calls
WebrtcInitialize == webrtc.pc # "loop" /\ ProcStartCall
WebrtcCleanup == webrtc.pc # "loop" /\ ProcStopCall

NextWebrtc ==
    \/ WebrtcInitialize
    \/ WebrtcCleanup
    \/ WebrtcCall
    \/ WebrtcFrame
    \/ WebrtcReturn

\* the heuristic backend under every sample rate and audio length
SpecWebrtc == InitFraming /\ [][NextWebrtc]_vars

(***************************************************************************)
(* The phrase table edited while the processor runs:                       *)
(* add_custom_activation_phrase and remove_activation_phrase are plain     *)
(* methods on the dict that _check_for_activation_phrases iterates.        *)
(***************************************************************************)
\* `k in d` of a dict
DictHas(d, k) == \E i \in 1..Len(d) : d[i].phrase = k

\* `del d[k]`: the other entries keep their order
DictDel(d, k) == SelectSeq(d, LAMBDA e : e.phrase # k)

\* the phrases callers pass: one of the table, one with a capital, one with
\* a capital that shadows a phrase of the table once lowercased
PhraseArgs == {<<"a">>, <<"B">>, <<"a", "B">>}
\* the handlers callers pass: a new one, and one already bound to a command
CustomHandlers == {"custom_handler", "show_status"}
\* the table may grow by this many entries
MaxAdded == 1

\* mutant: the phrase is entered as given, capitals included
AddCustomActivationPhrase_AsGiven(phrase, handler) ==
    /\ Len(DictSet(activation_phrases, phrase, handler))
           <= Len(Commands) + MaxAdded
    /\ activation_phrases' = DictSet(activation_phrases, phrase, handler)
    /\ UNCHANGED <<is_running, vad_loaded, whisper_loaded, voice_segments,
                   last_activation_time, now, chunk, att>>

\* add_custom_activation_phrase(phrase, handler)
AddCustomActivationPhrase(phrase, handler) ==
    /\ Len(DictSet(activation_phrases, LowerText(phrase), handler))
           <= Len(Commands) + MaxAdded
    /\ activation_phrases' =
           DictSet(activation_phrases, LowerText(phrase), handler)
    /\ UNCHANGED <<is_running, vad_loaded, whisper_loaded, voice_segments,
                   last_activation_time, now, chunk, att>>

\* remove_activation_phrase(phrase)
RemoveActivationPhrase(phrase) ==
    /\ activation_phrases' =
           IF DictHas(activation_phrases, LowerText(phrase))
           THEN DictDel(activation_phrases, LowerText(phrase))
           ELSE activation_phrases
    /\ UNCHANGED <<is_running, vad_loaded, whisper_loaded, voice_segments,
                   last_activation_time, now, chunk, att>>

AddPhraseCall(phrase, handler) ==
    AddCustomActivationPhrase(phrase, handler)
        /\ UNCHANGED <<supVars, histVars, segVars>>
RemovePhraseCall(phrase) ==
    RemoveActivationPhrase(phrase) /\ UNCHANGED <<supVars, histVars, segVars>>

AddPhrase == \E phrase \in PhraseArgs, handler \in CustomHandlers :
                 AddPhraseCall(phrase, handler)
RemovePhrase == \E phrase \in PhraseArgs : RemovePhraseCall(phrase)

\* what Whisper returns while the table is edited: texts with the edited
\* phrases in them
PhraseTexts == {<<"a", "b">>, <<"B">>, <<"b", "a">>}

\* process_chunk on a voice frame of this moment; the handler returns and
\* the journal write succeeds
PhraseChunkCall ==
    /\ ProcessChunk(now, "voice", PhraseTexts, {now}, {"ok"}, {"ok"})
    /\ UNCHANGED <<supVars, histVars, segVars>>

NextPhrases ==
    \/ ProcStartCall
    \/ PhraseChunkCall
    \/ AddPhrase
    \/ RemovePhrase

\* the processor fed voice while phrases are added and removed
SpecPhrases == InitProc /\ [][NextPhrases]_vars

(***************************************************************************)
(* A subprocess that never exits on its own and always has the next frame  *)
(* ready: read() returns at once, so more than a minute can pass without a *)
(* heartbeat only while a task is inside process_chunk.                    *)
(***************************************************************************)
\* more than 60 s pass while a frame is classified or transcribed
HeartbeatAgesInChunk ==
    /\ \E p \in Pids : ingest[p].pc = "awaiting"
    /\ HeartbeatAges

\* the subprocess exits only when it has been sent SIGTERM
SignalledExit(p) ==
    /\ procs[p] = "signalled"
    /\ ProcExit(p)

NextDelivering ==
    \/ Start
    \/ Stop
    \/ StopWaitDone
    \/ \E p \in Pids : SignalledExit(p)
    \/ HeartbeatAgesInChunk
    \/ MonitorCheckCounted
    \/ RestartLaunch
    \/ \E p \in Pids : RestartWaitDone(p)
    \/ \E p \in Pids : IngestBegin(p)
    \/ \E p \in Pids : IngestFrame(p)
    \/ \E p \in Pids : IngestEOF(p)
    \/ \E p \in Pids : IngestResume(p)

\* a recording session on a healthy camera
SpecDelivering == Init /\ [][NextDelivering]_vars

(***************************************************************************)
(* The restarts of one recording session under the scheduling of the event *)
(* loop: a task that is ready to run, or whose awaited call is done, runs  *)
(* once the loop is free; a read() on the pipe of an exited subprocess     *)
(* returns.  Nothing is assumed about subprocess exits or incoming frames. *)
(***************************************************************************)
RestartFairness ==
    /\ WF_vars(MonitorCheckCounted)
    /\ WF_vars(RestartLaunch)
    /\ \A p \in Pids : /\ WF_vars(RestartWaitDone(p))
                       /\ WF_vars(IngestBegin(p))
                       /\ WF_vars(IngestEOF(p))
                       /\ WF_vars(IngestResume(p))

SpecRestartFair == SpecRestart /\ RestartFairness

(***************************************************************************)
(* One recording session whose video is paused and resumed through the web *)
(* API while the monitor runs: start() has returned before the first       *)
(* request and stop() is not called.                                       *)
(***************************************************************************)
\* resume_video called during the session
ResumeRecording == is_recording /\ ResumeVideo

NextPause ==
    \/ Start
    \/ PauseVideo
    \/ PauseWaitDone
    \/ ResumeRecording
    \/ HeartbeatAges
    \/ MonitorCheck
    \/ RestartLaunch
    \/ \E p \in Pids : RestartWaitDone(p)
    \/ \E p \in Pids : ProcExit(p)
    \/ \E p \in Pids : IngestBegin(p)
    \/ \E p \in Pids : IngestFrame(p)
    \/ \E p \in Pids : IngestEOF(p)
    \/ \E p \in Pids : IngestResume(p)

SpecPause == Init /\ [][NextPause]_vars

(***************************************************************************)
(* The VAD backend called directly: initialize() and cleanup() come from   *)
(* the web API while detect_voice_activity calls are made.  SileroVAD      *)
(* suspends in its executor call between the model test and the statistics *)
(* update; WebRTCVAD goes from one to the other without suspending.        *)
(***************************************************************************)
\* the model counts this many detections
MaxDetections == 3
\* the calls that may be inside the executor at once
MaxInflight == 2

\* the statistics update of detect_voice_activity
CountDetection(stats, has_voice) ==
    [stats EXCEPT !.detections_total = @ + 1,
                  !.voice_detected = IF has_voice THEN @ + 1 ELSE @,
                  !.silence_detected = IF has_voice THEN @ ELSE @ + 1]

\* mutant: a backend without a model still classifies
DetectUnloaded_Counts ==
    /\ ~vad_loaded
    /\ vadstats.detections_total < MaxDetections
    /\ vadstats' = [CountDetection(vadstats, FALSE) EXCEPT
                       !.last = [loaded |-> FALSE, result |-> FALSE,
                                 counted |-> TRUE]]

\* detect_voice_activity on a backend without a model: False at once
DetectUnloaded ==
    /\ ~vad_loaded
    /\ vadstats' = [vadstats EXCEPT
                       !.last = [loaded |-> FALSE, result |-> FALSE,
                                 counted |-> FALSE]]

\* detect_voice_activity on a loaded backend, up to its suspension
DetectBegin ==
    /\ vad_loaded
    /\ vadstats.inflight < MaxInflight
    /\ vadstats' = [vadstats EXCEPT !.inflight = @ + 1]

\* the rest of a call: the backend answered v, or raised (which it does
\* when cleanup() took the model away before the executor ran)
DetectEnd(v) ==
    /\ vadstats.inflight > 0
    /\ v = "raise" \/ vadstats.detections_total < MaxDetections
    /\ LET has_voice == v = "voice"
           done == [vadstats EXCEPT !.inflight = @ - 1]
       IN vadstats' =
              IF v = "raise"
              THEN [done EXCEPT !.last = [loaded |-> TRUE, result |-> FALSE,
                                          counted |-> FALSE]]
              ELSE [CountDetection(done, has_voice) EXCEPT
                        !.last = [loaded |-> TRUE, result |-> has_voice,
                                  counted |-> TRUE]]

VadFrame == UNCHANGED <<supVars, restarts, dispatch_log, call, app, settings,
                        framing, webrtc, storage, segVars>>

VadInitialize ==
    /\ ~vad_loaded
    /\ vad_loaded' = TRUE
    /\ UNCHANGED <<is_running, whisper_loaded, voice_segments,
                   last_activation_time, activation_phrases, now, chunk, att>>
    /\ UNCHANGED vadstats
    /\ VadFrame

VadCleanup ==
    /\ vad_loaded
    /\ vad_loaded' = FALSE
    /\ UNCHANGED <<is_running, whisper_loaded, voice_segments,
                   last_activation_time, activation_phrases, now, chunk, att>>
    /\ UNCHANGED vadstats
    /\ VadFrame

VadDetectUnloaded == DetectUnloaded /\ UNCHANGED procVars /\ VadFrame
VadDetectBegin == DetectBegin /\ UNCHANGED procVars /\ VadFrame
VadDetectEnd ==
    /\ \E v \in VadOutcomes : DetectEnd(v)
    /\ UNCHANGED procVars
    /\ VadFrame

NextVad ==
    \/ VadInitialize
    \/ VadCleanup
    \/ VadDetectUnloaded
    \/ VadDetectBegin
    \/ VadDetectEnd

\* the backend between the web API and its callers
SpecVad == Init /\ [][NextVad]_vars

(***************************************************************************)
(* StorageManager: the three tiers as sets of file names and the metadata  *)
(* directory as a map from file_id.  A file is old enough for a migration  *)
(* or for pruning whenever the model says so.  No coroutine of the manager *)
(* suspends between reading and writing a metadata file.                   *)
(***************************************************************************)
ImportanceLevels == {"high", "critical", "low"}

\* f"{file_id}_compressed"
CompressedName(file_id) == Append(file_id, "_compressed")

\* video_file.stem.replace("_compressed", ""): every occurrence goes
FileIdOf(stem) == SelectSeq(stem, LAMBDA part : part # "_compressed")

\* store_video: the file is copied to hot and its metadata written
StoreVideo(file_id) ==
    /\ file_id \notin storage.stored
    /\ storage' = [storage EXCEPT
           !.hot = @ \cup {file_id},
           !.meta[file_id] = [exists |-> TRUE, storage_tier |-> "hot",
                              importance |-> "none"],
           !.stored = @ \cup {file_id}]

\* mark_important(file_id, importance_level) with the metadata present
MarkImportant(file_id, importance_level) ==
    /\ storage.meta[file_id].exists
    /\ storage' = [storage EXCEPT
           !.meta[file_id].importance = importance_level,
           !.marked = IF importance_level \in {"high", "critical"}
                      THEN @ \cup {file_id}
                      ELSE @ \ {file_id}]

\* _migrate_file_to_warm on a file of hot, the compression succeeding
MigrateFileToWarm(video_file) ==
    /\ video_file \in storage.hot
    /\ LET file_id == video_file
       IN storage' = [storage EXCEPT
              !.warm = @ \cup {CompressedName(file_id)},
              !.meta[file_id] = IF @.exists
                                THEN [@ EXCEPT !.storage_tier = "warm"]
                                ELSE @,
              !.hot = @ \ {video_file}]

\* _migrate_file_to_cold on a file of warm
MigrateFileToCold(video_file) ==
    /\ video_file \in storage.warm
    /\ LET file_id == FileIdOf(video_file)
       IN storage' = [storage EXCEPT
              !.cold = @ \cup {video_file},
              !.warm = @ \ {video_file},
              !.meta = IF file_id \in Stems /\ @[file_id].exists
                       THEN [@ EXCEPT ![file_id].storage_tier = "cold"]
                       ELSE @]

\* one iteration of _prune_old_content on a file of cold that is past the
\* cutoff, _prune_file included
PruneOldContent(video_file) ==
    /\ video_file \in storage.cold
    /\ LET file_id == FileIdOf(video_file)
           has_meta == file_id \in Stems /\ storage.meta[file_id].exists
           should_prune ==
               ~(has_meta /\
                 storage.meta[file_id].importance \in {"high", "critical"})
       IN storage' =
              IF should_prune
              THEN [storage EXCEPT
                       !.cold = @ \ {video_file},
                       !.meta = IF has_meta
                                THEN [@ EXCEPT ![file_id] = NoMeta]
                                ELSE @]
              ELSE storage

StorageFrame ==
    UNCHANGED <<supVars, restarts, dispatch_log, call, app, settings, framing,
                webrtc, vadstats, segVars, procVars>>

StoreVideoCall == (\E file_id \in Stems : StoreVideo(file_id)) /\ StorageFrame
MarkImportantCall ==
    /\ \E file_id \in Stems, level \in ImportanceLevels :
           MarkImportant(file_id, level)
    /\ StorageFrame
MigrateHotToWarm ==
    (\E video_file \in storage.hot : MigrateFileToWarm(video_file))
        /\ StorageFrame
MigrateWarmToCold ==
    (\E video_file \in storage.warm : MigrateFileToCold(video_file))
        /\ StorageFrame
PruneCycle ==
    (\E video_file \in storage.cold : PruneOldContent(video_file))
        /\ StorageFrame

NextStorage ==
    \/ StoreVideoCall
    \/ MarkImportantCall
    \/ MigrateHotToWarm
    \/ MigrateWarmToCold
    \/ PruneCycle

\* the storage manager under any order of stores, marks and pruning cycles
SpecStorage == Init /\ [][NextStorage]_vars

(***************************************************************************)
(* Claims about the supervisor                                             *)
(***************************************************************************)
\* C1: a subprocess that keeps exiting is restarted at most
\* max_restart_attempts times: the supervisor never enters _restart_capture
\* a further time.
C1_RestartBound == restarts <= max_restart_attempts

\* C2: in every reachable state at most one capture subprocess is alive.
C2_AtMostOneAlive == Cardinality(AlivePids) <= 1

(***************************************************************************)
(* Claims about the voice window and the classifier                        *)
(***************************************************************************)
\* C4: after every append the window holds no segment older than the
\* retention window, counted back from the timestamp of the segment just
\* appended (the last of the window).
C4_WindowRetention ==
    \A i \in 1..Len(voice_segments) :
        ~(voice_segments[i] < voice_segments[Len(voice_segments)] - RetentionSec)

\* C4 witness: an append has just evicted a segment and kept another
C4_Witness ==
    /\ chunk.ran /\ chunk.vad = "voice" /\ chunk.evicted > 0
    /\ Len(voice_segments) >= 2

C3_OneDispatchPerCooldown ==
    dispatch_log.prev # 0 =>
        dispatch_log.last - dispatch_log.prev >= cooldown_sec

(***************************************************************************)
(* Claims about matching and dispatch                                      *)
(***************************************************************************)
\* the last attempt got a non-empty transcript
AttemptHeard == att.kind \in {"nomatch", "match", "handler_error"}

\* the phrases of the table, by position, that occur in the lowercased and
\* trimmed transcript of the last attempt
PhrasesInTranscript ==
    {i \in 1..Len(activation_phrases) :
        IsSubstring(activation_phrases[i].phrase, Strip(LowerText(att.text)))}

FirstInTranscript ==
    CHOOSE i \in PhrasesInTranscript : \A k \in PhrasesInTranscript : i <= k

\* C8: on a non-empty transcript the handler dispatched is that of the first
\* phrase, in registration order, that is a substring of the lowercased and
\* trimmed transcript; if none is, no handler is dispatched.
C8_FirstMatch ==
    AttemptHeard =>
        IF PhrasesInTranscript = {}
        THEN att.calls = <<>>
        ELSE att.calls = <<activation_phrases[FirstInTranscript].handler>>

\* C8 witness: two phrases are in the transcript, the later one the longer,
\* and a handler was dispatched
C8_Witness ==
    /\ AttemptHeard /\ att.calls # <<>>
    /\ \E k \in PhrasesInTranscript :
           /\ k > FirstInTranscript
           /\ Len(activation_phrases[k].phrase) >
                  Len(activation_phrases[FirstInTranscript].phrase)

\* C9: an attempt whose transcript matches a phrase dispatches one handler
\* once and records one event: matched, with the matched phrase and the
\* transcript as it was returned.
C9_OneDispatchOneEvent ==
    (AttemptHeard /\ PhrasesInTranscript # {}) =>
        /\ Len(att.calls) = 1
        /\ Len(att.events) = 1
        /\ att.events[1].is_activation
        /\ att.events[1].activation_command =
               activation_phrases[FirstInTranscript].phrase
        /\ att.events[1].text = att.text

\* C10: on every attempt whose transcript matches a phrase the cooldown
\* timestamp is updated and a matched event is recorded, the handler
\* raising or not.
C10_StampAndEventDespiteHandler ==
    (AttemptHeard /\ PhrasesInTranscript # {}) =>
        /\ att.stamped
        /\ \E n \in 1..Len(att.events) : att.events[n].is_activation

(***************************************************************************)
(* Claims about the ingest loop                                            *)
(***************************************************************************)
\* C5: every frame handed to the processor is exactly one frame long, the
\* frames are the consecutive slices of the bytes read, in order, each
\* handed over as soon as it is complete, and what is left in the buffer is
\* less than a frame and is never handed over.
C5_ExactFrames ==
    /\ \A n \in 1..Len(seg.frames) :
           seg.frames[n] = [i \in 1..FrameBytes |-> (n - 1) * FrameBytes + i]
    /\ Len(seg.frames) = seg.read \div FrameBytes
    /\ seg.buffer = [i \in 1..(seg.read % FrameBytes) |->
                         Len(seg.frames) * FrameBytes + i]

\* C5 witness: the loop has ended with frames handed over and a partial
\* frame left behind
C5_Witness ==
    /\ seg.pc = "ended"
    /\ Len(seg.frames) >= 2
    /\ seg.buffer # <<>>

\* C7: an iteration in which read, classification, transcription, a handler,
\* the journal write or process_chunk itself failed leaves the loop running,
\* and while the session records and the process lives the next read is made.
C7_LoopSurvivesErrors ==
    seg.err # "none" =>
        /\ seg.pc = "running"
        /\ (is_recording /\ process # NoProc /\ Running(process)
              /\ seg.read < StreamLen) => ENABLED SegRead

\* C7 witness: the iteration after a failed handler handed over the next
\* frame without error
C7_Witness ==
    /\ seg.prev = "handler" /\ seg.err = "none"
    /\ seg.pc = "running"
    /\ seg.buffer = <<>> /\ chunk.ran

(***************************************************************************)
(* Claims about attempts without a dispatch                                *)
(***************************************************************************)
\* C11: an attempt whose non-empty transcript holds no phrase records one
\* event, not an activation and without a command, dispatches no handler and
\* leaves the cooldown timestamp as it was.
C11_NoMatchRecorded ==
    [][(AttemptHeard' /\ PhrasesInTranscript' = {}) =>
           /\ att'.calls = <<>>
           /\ Len(att'.events) = 1
           /\ ~att'.events[1].is_activation
           /\ att'.events[1].activation_command = <<"None">>
           /\ att'.events[1].text = att'.text
           /\ ~att'.stamped
           /\ last_activation_time' = last_activation_time]_vars

\* C11 witness: a transcript without a phrase, trimmed and lowercased, was
\* recorded while the cooldown timestamp of an earlier dispatch stood
C11_Witness ==
    /\ AttemptHeard /\ PhrasesInTranscript = {}
    /\ att.text = <<"B">>
    /\ last_activation_time # 0

\* the last attempt passed the cooldown test and got no text: None from
\* _transcribe_audio (no model, or an exception) or an empty string
AttemptUnheard == att.kind \notin {"none", "gated"} /\ att.text = <<>>

\* C12: an attempt whose transcription gave no text, by returning nothing,
\* by raising or for want of a model, records no event, dispatches no
\* handler and leaves the cooldown timestamp as it was.
C12_NoTextNoEffect ==
    [][AttemptUnheard' =>
           /\ att'.events = <<>>
           /\ att'.calls = <<>>
           /\ ~att'.stamped
           /\ last_activation_time' = last_activation_time]_vars

\* C12 witness: the engine raised while the cooldown timestamp of an earlier
\* dispatch stood
C12_Witness ==
    /\ AttemptUnheard /\ att.failed
    /\ last_activation_time # 0

(***************************************************************************)
(* Claims about stop and start                                             *)
(***************************************************************************)
\* C13: once stop() has been called and until start() is called again, no
\* capture subprocess is launched: while the session is not recording no
\* subprocess is alive that has not been told to terminate.
C13_NoLaunchWhileStopped ==
    ~is_recording => \A p \in Pids : procs[p] # "alive"

\* C14: a stop() that waited returns with the recording flag false, having
\* killed the subprocess it terminated if and only if that subprocess had
\* not exited within the timeout.
C14_StopSequence ==
    [][(stopCall.pc = "wait" /\ stopCall'.pc = "idle") =>
           /\ ~is_recording'
           /\ IF Running(stopCall.pid)
              THEN procs' = [procs EXCEPT ![stopCall.pid] = "exited"]
              ELSE procs' = procs]_vars

\* C15: a stop() on a session that is not recording changes nothing of the
\* supervisor and signals no process; a start() on a recording session
\* launches no subprocess and creates no monitor and no ingest task.
C15_IdempotentCalls ==
    [][/\ (call' # call /\ call'.op = "stop" /\ ~is_recording) =>
              UNCHANGED supVars
       /\ (call' # call /\ call'.op = "start" /\ is_recording) =>
              UNCHANGED <<process, procs, monitor, ingest, is_recording>>]_vars

\* C15 witness: start() was called on a recording session whose subprocess
\* had exited, with one monitor
C15_Witness ==
    /\ call.op = "start" /\ is_recording
    /\ process # NoProc /\ procs[process] = "exited"
    /\ NumMonitors = 1

\* C16: a start() whose Popen fails leaves the recording flag false and
\* creates no monitor, no ingest task and no process.
C16_FailedStartStaysStopped ==
    [][(call' # call /\ call'.op = "start_failed") =>
           /\ ~is_recording'
           /\ UNCHANGED <<process, procs, monitor, ingest>>]_vars

\* C16 witness: the first start() failed: stopped, no monitor, no ingest task
C16_Witness ==
    /\ call.op = "start_failed"
    /\ ~is_recording /\ process = NoProc
    /\ NumMonitors = 0
    /\ \A p \in Pids : ingest[p] = Idle

(***************************************************************************)
(* Claims about the health monitor                                         *)
(***************************************************************************)
\* a monitor task is inside _restart_capture
Restarting == monitor.delay > 0 \/ \E p \in Pids : monitor.wait[p] > 0

\* the subprocess of the recording session has exited
ProcessDied == is_recording /\ process # NoProc /\ procs[process] = "exited"

\* the subprocess of the recording session lives and has been silent for
\* more than the staleness threshold
ProcessSilent ==
    /\ is_recording /\ process # NoProc /\ procs[process] = "alive"
    /\ last_heartbeat = "stale"

\* C17: while the session records, the exit of the subprocess leads to a
\* monitor entering _restart_capture.
C17_ExitLeadsToRestart == ProcessDied ~> (Restarting \/ ~is_recording)

\* C17 witness: a monitor has found the subprocess dead and waits in
\* _restart_capture
C17_Witness ==
    /\ ProcessDied
    /\ monitor.wait[process] > 0

\* C18: while the session records and the subprocess lives, a heartbeat
\* older than the threshold leads to a monitor entering _restart_capture
\* (unless the session is stopped, the subprocess exits or data arrives).
C18_SilenceLeadsToRestart == ProcessSilent ~> (Restarting \/ ~ProcessSilent)

\* C19: no restart is triggered while another is in flight: at most one
\* monitor task is inside _restart_capture.
C19_OneRestartInFlight ==
    monitor.delay + SumOver(monitor.wait, Pids) <= 1

\* C20: while a call of process_chunk (classification, transcription) is in
\* flight the ingest task is not held up: with the session recording and
\* the subprocess running, its next read can be made.
C20_IngestNotHeldUp ==
    \A p \in Pids :
        (/\ ingest[p].pc = "awaiting"
         /\ is_recording /\ process # NoProc /\ Running(process)) =>
            ENABLED IngestFrame(p)

(***************************************************************************)
(* Claims about concurrency in the ingest path                             *)
(***************************************************************************)
\* an ingest task waits in read() for bytes of a live subprocess
ReadWaiting ==
    \E p \in Pids : ingest[p].pc = "reading" /\ procs[ingest[p].pid] = "alive"

\* C21: a read that waits for bytes does not delay the health check: a
\* monitor whose sleep(30) is over can make its check while an ingest task
\* waits in read() on a live subprocess.
C21_ReadNeverDelaysCheck ==
    (ReadWaiting /\ monitor.sleep > 0) => ENABLED MonitorCheck

\* the ingest tasks whose process_chunk is suspended in the VAD's executor call
Classifying == {p \in Pids : ingest[p].pc = "awaiting"}

\* the ingest tasks with a recognition attempt in progress
Attempting == {p \in Pids : ingest[p].pc = "transcribing"}

\* C22: at no time are two classify calls in flight on the classifier.
C22_OneClassifyInFlight == Cardinality(Classifying) <= 1

\* C23: at most one recognition attempt is in progress at any time: an
\* attempt that is under way keeps a second one from passing the cooldown
\* check.
C23_OneAttemptInProgress == Cardinality(Attempting) <= 1

\* C24: frames are submitted in the order in which their bytes arrived: every
\* byte of a frame arrived before every byte of the frames submitted after it.
C24_ArrivalOrder ==
    \A i, j \in 1..Len(pipe.frames) :
        i < j => \A a, b \in 1..FrameBytes :
                     pipe.frames[i][a] < pipe.frames[j][b]

\* C28: the timestamps passed with successive frames are strictly increasing.
C28_StampsIncrease ==
    \A i \in 1..(Len(pipe.stamps) - 1) : pipe.stamps[i] < pipe.stamps[i + 1]

(***************************************************************************)
(* Claims about the gate of the recognizer                                 *)
(***************************************************************************)
\* C25: Whisper is never invoked while the window, after eviction, holds
\* fewer than three segments, and a voice frame that leaves at least three
\* segments in the window has _check_for_activation_phrases called.
C25_WindowGatesRecognition ==
    /\ Len(voice_segments) < 3 => ~att.transcribed /\ att.kind = "none"
    /\ (chunk.ran /\ chunk.vad = "voice" /\ Len(voice_segments) >= 3) =>
           chunk.checked /\ att.kind # "none"

\* C25 witness: a voice frame evicted a segment, left three, and Whisper ran
C25_Witness ==
    /\ chunk.ran /\ chunk.vad = "voice" /\ chunk.evicted > 0
    /\ Len(voice_segments) = 3
    /\ att.transcribed

(***************************************************************************)
(* Claims about startup                                                    *)
(***************************************************************************)
\* C26: a capture subprocess is launched only once the audio processor has
\* finished starting: never when its start failed, and never before its
\* start has returned.
C26_ProcessorBeforeCapture ==
    (\E p \in Pids : procs[p] # "free") => is_running

(***************************************************************************)
(* Claims about the statistics                                             *)
(***************************************************************************)
\* C29: a process_chunk call in which voice-activity detection raised has
\* returned with chunks_processed incremented.
C29_CountedDespiteVadError == chunk.vad = "throws" => chunk.ran

(***************************************************************************)
(* Claims about sizes and ratios                                           *)
(***************************************************************************)
\* C27: a frame cut by the segmenter is sample_rate * 2 * channels *
\* chunk_duration_sec bytes long, whatever the audio settings are.
C27_FrameSizeFormula ==
    framing.frames > 0 =>
        framing.frame_len = settings.sample_rate * 2 * settings.channels
                                * settings.chunk_duration_sec

C31_GatedSkipped ==
    [][(/\ chunk'.checked
        /\ now - last_activation_time < cooldown_sec
        /\ ProcChunkCall) =>
           /\ att'.kind = "gated"
           /\ ~att'.transcribed
           /\ att'.calls = <<>>
           /\ att'.events = <<>>
           /\ ~att'.stamped
           /\ last_activation_time' = last_activation_time]_vars

\* C31 witness: an attempt was skipped inside the cooldown of a dispatch
C31_Witness ==
    /\ chunk.ran /\ chunk.checked
    /\ att.kind = "gated"
    /\ last_activation_time # 0
    /\ now - last_activation_time < cooldown_sec


\* C32: process_chunk on a processor that is not running (never started, or
\* stopped) changes nothing: the frame is not buffered, nothing is counted,
\* the voice window and the cooldown timestamp stay, and neither the VAD nor
\* Whisper is invoked.
C32_StoppedChunkNoOp ==
    [][(~is_running /\ ~is_running' /\ now' = now) =>
           /\ ~chunk'.buffered
           /\ ~chunk'.ran
           /\ chunk'.vad = "none"
           /\ ~att'.transcribed /\ att'.calls = <<>> /\ att'.events = <<>>
           /\ voice_segments' = voice_segments
           /\ last_activation_time' = last_activation_time]_vars

\* C32 witness: a frame was handed to a processor stopped after it had
\* heard voice and dispatched
C32_Witness ==
    /\ ~is_running
    /\ chunk = NoChunk
    /\ voice_segments # <<>>
    /\ last_activation_time # 0


(***************************************************************************)
(* Claims about the phrase table                                           *)
(***************************************************************************)
\* the entries of d other than k, in order
OtherEntries(d, k) == SelectSeq(d, LAMBDA e : e.phrase # k)

\* C33: add_custom_activation_phrase(p, h) leaves lower(p) in the table
\* bound to h; remove_activation_phrase(p) leaves lower(p) out of it; a
\* dispatch is made only for a phrase that is in the table, so a removed
\* phrase triggers none; both operations leave the other entries and their
\* order as they were.
C33_AddRemovePhrase ==
    [][/\ \A p \in PhraseArgs, h \in CustomHandlers :
            AddPhraseCall(p, h) =>
               /\ \E i \in 1..Len(activation_phrases') :
                      activation_phrases'[i] =
                          [phrase |-> LowerText(p), handler |-> h]
               /\ OtherEntries(activation_phrases', LowerText(p)) =
                      OtherEntries(activation_phrases, LowerText(p))
       /\ \A p \in PhraseArgs :
            RemovePhraseCall(p) =>
               /\ ~DictHas(activation_phrases', LowerText(p))
               /\ OtherEntries(activation_phrases', LowerText(p)) =
                      OtherEntries(activation_phrases, LowerText(p))
       /\ PhraseChunkCall =>
               \A i \in 1..Len(att'.events) :
                   att'.events[i].is_activation =>
                       /\ DictHas(activation_phrases,
                                  att'.events[i].activation_command)
                       /\ DictHas(activation_phrases',
                                  att'.events[i].activation_command)]_vars

\* C33 witness: a phrase of the settings was removed, a custom phrase given
\* with a capital is in the table, and a transcript holding the removed
\* phrase dispatched the custom handler
C33_Witness ==
    /\ ~DictHas(activation_phrases, <<"a">>)
    /\ \E i \in 1..Len(activation_phrases) :
           activation_phrases[i] = [phrase |-> <<"b">>, handler |-> "custom_handler"]
    /\ att.kind = "match"
    /\ att.text = <<"b", "a">>
    /\ att.calls = <<"custom_handler">>

\* C33 witness: a custom phrase was added over a phrase of the settings and
\* removed again, which removed the phrase of the settings
C33_WitnessRemoved ==
    /\ ~DictHas(activation_phrases, <<"a", "b">>)
    /\ Len(activation_phrases) = Len(Commands) - 1
    /\ att.kind = "match"
    /\ att.text = <<"a", "b">>


(***************************************************************************)
(* Claims about the ingest loops and the health monitor                    *)
(***************************************************************************)
\* C34: an ingest loop reads only the subprocess it was started for, so no
\* subprocess is read by two loops: the loop created at the launch of p
\* never reads the output of a subprocess launched later.
C34_LoopReadsOwnProcess ==
    \A p \in Pids : ingest[p].pc = "reading" => ingest[p].pid = p


\* C35: the monitor never restarts a subprocess that is alive and has just
\* delivered a frame, however long process_chunk takes on that frame.
C35_DeliveringNotRestarted ==
    [][(/\ process # NoProc
        /\ procs[process] = "alive"
        /\ ingest[process].pc = "awaiting") =>
           monitor'.wait[process] <= monitor.wait[process]]_vars


\* the monitor has restarted the capture and p is the new subprocess, whose
\* ingest task has been created and has not run yet
RestartedInto(p) ==
    /\ restarts > 0
    /\ is_recording
    /\ process = p
    /\ procs[p] = "alive"
    /\ ingest[p].pc = "ready"

\* an ingest loop is in read() on the stdout of p
ReadBy(p) == \E q \in Pids : ingest[q].pc = "reading" /\ ingest[q].pid = p

\* C36: after a restart by the monitor has launched a new subprocess while
\* the session records, ingestion resumes on the stream of that subprocess:
\* some ingest loop comes to read its stdout, from where every frame it
\* writes is handed to process_chunk (unless the subprocess stops running
\* or is replaced first).
C36_IngestionResumes ==
    \A p \in Pids :
        RestartedInto(p) ~> (ReadBy(p) \/ ~is_recording \/ process # p
                                \/ procs[p] # "alive")

\* C36 witness: after a restart the task created for the new subprocess
\* reads it
C36_Witness ==
    /\ restarts > 0
    /\ is_recording
    /\ \E p \in Pids : /\ process = p
                       /\ procs[p] = "alive"
                       /\ ingest[p] = [pc |-> "reading", pid |-> p]


\* C37: from the completion of pause_video() until resume_video() is called
\* (self.process is None while the session records) no subprocess is alive,
\* and only resume_video() launches one.
C37_PausedStaysPaused ==
    [][(is_recording /\ process = NoProc) =>
           /\ AlivePids = {}
           /\ process' # NoProc => ResumeVideo]_vars


(***************************************************************************)
(* Claims about the VAD backend                                            *)
(***************************************************************************)
\* C38: a detect_voice_activity call on a backend without a model (never
\* initialized, or cleaned up) answers no-voice and leaves the statistics as
\* they were; at all times detections_total = voice_detected +
\* silence_detected.
C38_UnloadedBackendInert ==
    [][/\ vadstats'.detections_total =
              vadstats'.voice_detected + vadstats'.silence_detected
       /\ (~vad_loaded /\ VadDetectUnloaded) =>
              /\ ~vadstats'.last.result
              /\ vadstats'.detections_total = vadstats.detections_total
              /\ vadstats'.voice_detected = vadstats.voice_detected
              /\ vadstats'.silence_detected = vadstats.silence_detected]_vars

\* C38 witness: after voice and silence were counted the backend was
\* cleaned up and a call on it returned False uncounted
C38_Witness ==
    /\ ~vad_loaded
    /\ vadstats.voice_detected > 0
    /\ vadstats.silence_detected > 0
    /\ vadstats.inflight = 0
    /\ vadstats.last = [loaded |-> FALSE, result |-> FALSE, counted |-> FALSE]


(***************************************************************************)
(* Claims about the storage manager                                        *)
(***************************************************************************)
\* the video of file_id is in one of the tiers
Kept(file_id) ==
    \/ file_id \in storage.hot
    \/ CompressedName(file_id) \in storage.warm
    \/ CompressedName(file_id) \in storage.cold

\* C39: a stored file last marked high or critical is never pruned: its
\* video stays in one of the tiers and its metadata file stays.
C39_ImportantNeverPruned ==
    \A file_id \in storage.marked :
        Kept(file_id) /\ storage.meta[file_id].exists

=============================================================================
